---- MODULE Spec2Model ----
(***************************************************************************)
(* A model of the pane-composition runtime of The Bridge: the Composer     *)
(* (ui.Model), its four panes (shell, jira, github, chat) and the          *)
(* Bubble Tea executor that runs Commands and feeds their Messages back    *)
(* into the single consumer loop.                                          *)
(*                                                                         *)
(* The pane handlers are value-typed in the Go source (Update returns a    *)
(* new Model and a Cmd), so each is an operator from (model, msg) to a     *)
(* record [m, cmds, ...]; the Composer's Update is the action that stores  *)
(* the result.  The only heap object shared between the loop and a running *)
(* Command is the genai ChatSession, held in the variable `session`.       *)
(***************************************************************************)
EXTENDS Integers, Sequences, FiniteSets, TLC

VARIABLES
    state,      \* ui.Model.state: index of the active pane
    width,      \* ui.Model.width
    height,     \* ui.Model.height
    shell,      \* ui.Model.shell  (shell.Model)
    jira,       \* ui.Model.jira   (jira.Model)
    github,     \* ui.Model.github (github.Model)
    chat,       \* ui.Model.chat   (chat.Model)
    session,    \* the *genai.ChatSession the chat Model points to
    running,    \* Commands started by the executor and not yet finished
    inbox,      \* Messages produced by Commands, not yet consumed by the loop
    env,        \* process environment: credentials and $HOME
    quit,       \* the loop has returned tea.Quit
    crashed,    \* a handler panicked
    budget,     \* how many more events of each bounded kind the environment sends
    last        \* history: what the last step was

vars == <<state, width, height, shell, jira, github, chat, session,
          running, inbox, env, quit, crashed, budget, last>>

-----------------------------------------------------------------------------
(* Bounds of the model. *)

MaxEnter == 2       \* Enter events delivered to the shell pane
MaxSubmit == 2      \* non-empty submits in the chat pane
MaxResize == 1      \* window-resize events
MaxView == 1        \* view events sent to the shell pane: resizes and scroll keys
MaxIssues == 1      \* issues a tracker returns
MaxRoute == 1       \* shell Enters and chat submits together while the user switches tabs

(* Program constants. *)

viewShell == 0
viewJira == 1
viewGitHub == 2
viewChat == 3
NumTabs == 4
ShellInitWidth == 30
ShellInitHeight == 20
ChatInitWidth == 50
ChatInitHeight == 10
TextareaHeight == 3
HeaderHeight == 5
ShellInputRows == 3

Panes == 0 .. (NumTabs - 1)
NoPane == 0 - 1

-----------------------------------------------------------------------------
(* Messages.  Every Message is a record with the same fields; `origin` and *)
(* `id` are history fields the Go values do not carry: the pane whose      *)
(* Command produced the Message and the serial number of that Command.     *)

BaseMsg ==
    [type |-> "none", runes |-> <<>>, w |-> 0, h |-> 0, items |-> <<>>,
     body |-> <<>>, origin |-> NoPane, id |-> 0]

KeyMsg(k) == [BaseMsg EXCEPT !.type = k]
KeyRunes(r) == [BaseMsg EXCEPT !.type = "runes", !.runes = r]
WindowSizeMsg(w, h) == [BaseMsg EXCEPT !.type = "size", !.w = w, !.h = h]
JiraIssuesFetchedMsg(items) ==
    [BaseMsg EXCEPT !.type = "jiraIssues", !.items = items, !.origin = viewJira]
GitHubIssuesFetchedMsg(items) ==
    [BaseMsg EXCEPT !.type = "githubIssues", !.items = items, !.origin = viewGitHub]
\* `type errMsg error` is an interface type in all three packages: a value
\* converted to it keeps its dynamic type, and `case errMsg:` matches every
\* Message that implements error, whichever pane's Command produced it.
ErrMsg(origin, id, what) ==
    [BaseMsg EXCEPT !.type = "err", !.body = <<what>>, !.origin = origin, !.id = id]
ResponseMsg(id, body) ==
    [BaseMsg EXCEPT !.type = "response", !.body = body, !.origin = viewChat, !.id = id]

(* Commands: values the executor runs. *)
Cmd(kind, origin, id, text) ==
    [kind |-> kind, origin |-> origin, id |-> id, text |-> text]

-----------------------------------------------------------------------------
(* Paths.  A directory is the sequence of its components from the root; a  *)
(* path string as typed is [abs, comps].                                   *)

\* The file system: the directories /, /home, /home/u and /tmp; /tmp/f is a
\* regular file and every other path is missing.
Dirs == { <<>>, <<"home">>, <<"home", "u">>, <<"tmp">> }

\* filepath.IsAbs / the components of a typed argument
ArgPath(s) ==
    CASE s = ""       -> [abs |-> FALSE, comps |-> <<>>]
      [] s = ".."     -> [abs |-> FALSE, comps |-> <<"..">>]
      [] s = "tmp"    -> [abs |-> FALSE, comps |-> <<"tmp">>]
      [] s = "/tmp"   -> [abs |-> TRUE,  comps |-> <<"tmp">>]
      [] s = "/nope"  -> [abs |-> TRUE,  comps |-> <<"nope">>]
      [] s = "/tmp/f" -> [abs |-> TRUE,  comps |-> <<"tmp", "f">>]
      [] s = "/home/u" -> [abs |-> TRUE, comps |-> <<"home", "u">>]
      [] s = "/nohome" -> [abs |-> TRUE, comps |-> <<"nohome">>]
      [] OTHER        -> [abs |-> FALSE, comps |-> <<s>>]

RECURSIVE CleanFrom(_, _)
CleanFrom(acc, rest) ==
    IF rest = <<>> THEN acc
    ELSE IF Head(rest) = ".."
         THEN CleanFrom(IF acc = <<>> THEN acc ELSE SubSeq(acc, 1, Len(acc) - 1),
                        Tail(rest))
         ELSE IF Head(rest) = "."
              THEN CleanFrom(acc, Tail(rest))
              ELSE CleanFrom(Append(acc, Head(rest)), Tail(rest))

\* filepath.Join(dir, p): concatenate and Clean
Join(dir, comps) == CleanFrom(<<>>, dir \o comps)

\* filepath.Base
Base(dir) == IF dir = <<>> THEN "/" ELSE dir[Len(dir)]

\* os.Stat(target) succeeded and info.IsDir()
IsDir(dir) == dir \in Dirs

\* os.UserHomeDir: $HOME, or "" with an error when it is unset
UserHomeDir(e) == IF e.homeSet THEN e.home ELSE ""

-----------------------------------------------------------------------------
(* Shell pane (package shell).                                             *)

\* An input line is the sequence of its tokens, " " standing for a run of
\* white space.
IsSpace(t) == t = " "
\* strings.Fields
Fields(input) == SelectSeq(input, LAMBDA t : ~IsSpace(t))
\* strings.TrimSpace(input) == ""
IsBlank(input) == Fields(input) = <<>>

\* Transcript lines.
TextLine(s) == [k |-> "text", a |-> s, b |-> <<>>]
BlankLine == TextLine("")
PromptLine(base, input) == [k |-> "prompt", a |-> base, b |-> input]
CdErrLine(arg) == [k |-> "err", a |-> "cd: No such directory", b |-> <<arg>>]
ExecErrLine == [k |-> "err", a |-> "Error", b |-> <<>>]

RECURSIVE Blanks(_)
Blanks(n) == IF n <= 0 THEN <<>> ELSE <<BlankLine>> \o Blanks(n - 1)

Max(a, b) == IF a >= b THEN a ELSE b
Min(a, b) == IF a <= b THEN a ELSE b

\* viewport.Model.visibleLines
VisibleLines(vp) ==
    LET top == Max(0, vp.yoff)
        bottom == Max(top, Min(vp.yoff + vp.h, Len(vp.lines)))
    IN  SubSeq(vp.lines, top + 1, bottom)

\* strings.Split(viewport.View(), "\n"): the visible lines padded to the
\* viewport's height; the empty string splits into one empty line.
ViewLines(vp) ==
    LET vis == VisibleLines(vp)
        out == vis \o Blanks(vp.h - Len(vis))
    IN  IF out = <<>> THEN <<BlankLine>> ELSE out

\* viewport.SetContent followed by GotoBottom
SetContentBottom(vp, lines) ==
    [vp EXCEPT !.lines = lines, !.yoff = Max(0, Len(lines) - vp.h)]

\* viewport.Update on the line-up and line-down keys
ViewportKey(vp, msg) ==
    LET maxOff == Max(0, Len(vp.lines) - vp.h)
    IN  CASE msg.type = "up"   -> [vp EXCEPT !.yoff = Max(0, vp.yoff - 1)]
          [] msg.type = "down" -> [vp EXCEPT !.yoff = Min(maxOff, Max(0, vp.yoff + 1))]
          [] OTHER -> vp

\* What an external process produced: exec's CombinedOutput, split into lines.
ExecOutcomes ==
    { [ok |-> TRUE,  out |-> <<TextLine("hi"), BlankLine>>],
      [ok |-> FALSE, out |-> <<>>] }

NoDir == <<>>

\* The argument `cd` resolves: cmdArgs[0], or the home directory without one.
CdArgStayMutant(cmdArgs, e) == IF Len(cmdArgs) > 0 THEN cmdArgs[1] ELSE ""

CdArg(cmdArgs, e) == IF Len(cmdArgs) > 0 THEN cmdArgs[1] ELSE UserHomeDir(e)

\* "Handle relative paths": join a relative target to the current directory.
CdTarget(currentDir, arg) ==
    LET p == ArgPath(arg)
    IN  IF p.abs THEN p.comps ELSE Join(currentDir, p.comps)

\* "Verify it exists": the error line when the target is no directory (the
\* format's cmdArgs[0] panics when `cd` had no argument), else the target.
CdResultNoStatMutant(cmdArgs, targetDir) ==
    [out |-> <<BlankLine>>, dir |-> <<targetDir>>, panic |-> FALSE]

CdResult(cmdArgs, targetDir) ==
    IF ~IsDir(targetDir)
    THEN IF Len(cmdArgs) > 0
         THEN [out |-> <<CdErrLine(cmdArgs[1])>>, dir |-> NoDir, panic |-> FALSE]
         ELSE [out |-> <<>>, dir |-> NoDir, panic |-> TRUE]
    ELSE [out |-> <<BlankLine>>, dir |-> <<targetDir>>, panic |-> FALSE]

\* shell.Model.executeCommand(input): the output split into lines (one empty
\* line for ""), the new directory (NoDir for "") and whether the call
\* panicked.  `ext` is what the child process does when one is run.
executeCommand(m, input, e, ext) ==
    IF IsBlank(input)
    THEN [out |-> <<BlankLine>>, dir |-> NoDir, panic |-> FALSE]
    ELSE
    LET parts == Fields(input)
        cmdName == parts[1]
        cmdArgs == Tail(parts)
    IN  IF cmdName = "cd"
        THEN CdResult(cmdArgs, CdTarget(m.currentDir, CdArg(cmdArgs, e)))
        ELSE IF ext.ok
             THEN [out |-> ext.out, dir |-> NoDir, panic |-> FALSE]
             ELSE [out |-> <<ExecErrLine>>, dir |-> NoDir, panic |-> FALSE]

\* shell.New
ShellNew ==
    [vp |-> [w |-> ShellInitWidth, h |-> ShellInitHeight, yoff |-> 0,
             lines |-> <<TextLine("Welcome"), TextLine("Current Directory"), BlankLine>>],
     tiValue |-> <<>>,
     tiWidth |-> 20,
     currentDir |-> <<"home", "u">>]

\* The part of shell.Model.Update that handles KeyEnter.
ShellEnter(m, e, ext) ==
    LET cmdStr == m.tiValue
        r == executeCommand(m, cmdStr, e, ext)
        dir == IF r.dir # NoDir THEN r.dir[1] ELSE m.currentDir
        prompt == PromptLine(Base(dir), cmdStr)
        newContent == ViewLines(m.vp) \o <<prompt>> \o r.out
    IN  [m |-> [m EXCEPT !.tiValue = <<>>,
                         !.currentDir = dir,
                         !.vp = SetContentBottom(m.vp, newContent)],
         panic |-> r.panic]

\* shell.Model.Update(msg)
ShellUpdate(m, msg, e, ext) ==
    LET m1 == [m EXCEPT !.tiValue = IF msg.type = "runes" THEN @ \o msg.runes ELSE @,
                        !.vp = ViewportKey(@, msg)]
    IN  CASE msg.type = "enter" -> ShellEnter(m1, e, ext)
          [] msg.type = "size" ->
               [m |-> [m1 EXCEPT !.vp.w = msg.w, !.tiWidth = msg.w,
                                 !.vp.h = msg.h - ShellInputRows],
                panic |-> FALSE]
          [] OTHER -> [m |-> m1, panic |-> FALSE]

-----------------------------------------------------------------------------
(* IssueList panes (packages jira and github).                             *)

SetupItem == [k |-> "setup", id |-> 0]
NoIssuesItem == [k |-> "none", id |-> 0]
ErrorItem == [k |-> "error", id |-> 0]
IssueItem(i) == [k |-> "issue", id |-> i]

\* the loop `for _, issue := range msg { items = append(items, item{...}) }`
RECURSIVE ItemsOf(_)
ItemsOf(issues) ==
    IF issues = <<>> THEN <<>> ELSE <<IssueItem(Head(issues))>> \o ItemsOf(Tail(issues))

\* jira.New
JiraNew == [items |-> <<SetupItem>>, w |-> 0, h |-> 0, err |-> FALSE]

\* github.New
GitHubNew == [items |-> <<>>, w |-> 0, h |-> 0, err |-> FALSE]

\* jira.Model.SetSize, github.Model.SetSize: list.SetSize(width, height)
ListSetSize(m, w, h) == [m EXCEPT !.w = w, !.h = h]

\* m.list.Update(msg), the last call of jira.Model.Update and of
\* github.Model.Update: a list in its browsing state answers the keys of its
\* default key map's Quit binding ("q", "esc") with the Command tea.Quit.
ListKeyQuits(msg) == msg.type = "runes" /\ msg.runes = <<"q">>

\* jira.Model.Update(msg)
JiraUpdate(m, msg) ==
    CASE msg.type = "size" -> ListSetSize(m, msg.w, msg.h)
      [] msg.type = "jiraIssues" ->
           LET items == ItemsOf(msg.items)
           IN  IF Len(items) > 0
               THEN [m EXCEPT !.items = items]
               ELSE [m EXCEPT !.items = <<NoIssuesItem>>]
      [] msg.type = "err" -> [m EXCEPT !.err = TRUE, !.items = <<ErrorItem>>]
      [] OTHER -> m

\* github.Model.Update(msg)
GitHubUpdate(m, msg) ==
    CASE msg.type = "size" -> ListSetSize(m, msg.w, msg.h)
      [] msg.type = "githubIssues" -> [m EXCEPT !.items = ItemsOf(msg.items)]
      [] msg.type = "err" -> [m EXCEPT !.err = TRUE]
      [] OTHER -> m

-----------------------------------------------------------------------------
(* ChatAgent pane (package chat).                                          *)

Turn(role, content, id) == [role |-> role, content |-> content, id |-> id]

\* chat.New
ChatNew ==
    [messages |-> <<>>, taValue |-> <<>>, taWidth |-> ChatInitWidth,
     vpW |-> ChatInitWidth, vpH |-> ChatInitHeight, client |-> FALSE]

\* chat.Model.SetSize(w, h)
ChatSetSize(m, w, h) ==
    [m EXCEPT !.taWidth = w, !.vpW = w, !.vpH = h - TextareaHeight - 2]

\* chat.Model.ensureClient: "" when the client exists or was created, else the
\* error.  `newClientOK` is whether genai.NewClient succeeds.
ensureClient(m, e, newClientOK) ==
    IF m.client THEN ""
    ELSE IF ~e.geminiKey THEN "GEMINI_API_KEY environment variable not set"
    ELSE IF ~newClientOK THEN "NewClient failed"
    ELSE ""

\* The part of chat.Model.Update that handles KeyEnter.  The Command's id is
\* the position of the user Turn it sends.
ChatEnterNoSendMutant(m, e, newClientOK) ==
    IF m.taValue = <<>>
    THEN [m |-> m, cmds |-> {}, startSession |-> FALSE]
    ELSE
    LET userMsg == m.taValue
        err == ensureClient(m, e, newClientOK)
        id == Len(m.messages) + 1
    IN  IF err # ""
        THEN [m |-> [m EXCEPT !.messages = Append(@, Turn("system", <<"Error", err>>, 0)),
                              !.taValue = <<>>],
              cmds |-> {}, startSession |-> FALSE]
        ELSE [m |-> [m EXCEPT !.messages = Append(@, Turn("user", userMsg, id)),
                              !.taValue = <<>>,
                              !.client = TRUE],
              cmds |-> {},
              startSession |-> ~m.client]

ChatEnter(m, e, newClientOK) ==
    IF m.taValue = <<>>
    THEN [m |-> m, cmds |-> {}, startSession |-> FALSE]
    ELSE
    LET userMsg == m.taValue
        err == ensureClient(m, e, newClientOK)
        id == Len(m.messages) + 1
    IN  IF err # ""
        THEN [m |-> [m EXCEPT !.messages = Append(@, Turn("system", <<"Error", err>>, 0)),
                              !.taValue = <<>>],
              cmds |-> {}, startSession |-> FALSE]
        ELSE [m |-> [m EXCEPT !.messages = Append(@, Turn("user", userMsg, id)),
                              !.taValue = <<>>,
                              !.client = TRUE],
              cmds |-> {Cmd("send", viewChat, id, userMsg)},
              startSession |-> ~m.client]

\* chat.Model.Update(msg)
ChatUpdateOverwriteMutant(m, msg, e, newClientOK) ==
    LET m1 == [m EXCEPT !.taValue = IF msg.type = "runes" THEN @ \o msg.runes ELSE @]
    IN  CASE msg.type = "enter" -> ChatEnter(m1, e, newClientOK)
          [] msg.type = "response" ->
               [m |-> [m1 EXCEPT !.messages =
                                    IF @ = <<>> THEN <<Turn("model", msg.body, msg.id)>>
                                    ELSE [@ EXCEPT ![Len(@)] = Turn("model", msg.body, msg.id)]],
                cmds |-> {}, startSession |-> FALSE]
          [] msg.type = "err" ->
               [m |-> [m1 EXCEPT !.messages =
                                    Append(@, Turn("system", <<"Error">> \o msg.body, msg.id))],
                cmds |-> {}, startSession |-> FALSE]
          [] OTHER -> [m |-> m1, cmds |-> {}, startSession |-> FALSE]

ChatUpdateRetryMutant(m, msg, e, newClientOK) ==
    LET m1 == [m EXCEPT !.taValue = IF msg.type = "runes" THEN @ \o msg.runes ELSE @]
    IN  CASE msg.type = "enter" -> ChatEnter(m1, e, newClientOK)
          [] msg.type = "response" ->
               [m |-> [m1 EXCEPT !.messages = Append(@, Turn("model", msg.body, msg.id))],
                cmds |-> {}, startSession |-> FALSE]
          [] msg.type = "err" ->
               [m |-> [m1 EXCEPT !.messages =
                                    Append(@, Turn("system", <<"Error">> \o msg.body, msg.id))],
                cmds |-> {Cmd("send", viewChat, msg.id, <<"retry">>)},
                startSession |-> FALSE]
          [] OTHER -> [m |-> m1, cmds |-> {}, startSession |-> FALSE]

ChatUpdate(m, msg, e, newClientOK) ==
    LET m1 == [m EXCEPT !.taValue = IF msg.type = "runes" THEN @ \o msg.runes ELSE @]
    IN  CASE msg.type = "enter" -> ChatEnter(m1, e, newClientOK)
          [] msg.type = "response" ->
               [m |-> [m1 EXCEPT !.messages = Append(@, Turn("model", msg.body, msg.id))],
                cmds |-> {}, startSession |-> FALSE]
          [] msg.type = "err" ->
               [m |-> [m1 EXCEPT !.messages =
                                    Append(@, Turn("system", <<"Error">> \o msg.body, msg.id))],
                cmds |-> {}, startSession |-> FALSE]
          [] OTHER -> [m |-> m1, cmds |-> {}, startSession |-> FALSE]

\* toolFunctions
ToolNames == {"get_github_issues", "get_jira_issues"}

\* What a tool call can do: getJiraIssues fails at once without credentials;
\* otherwise either tool returns a payload, returns an error, or panics on a
\* payload of an unexpected shape (an unchecked type assertion).
ToolOutcomes(name, e) ==
    IF name = "get_jira_issues" /\ ~e.jiraCreds THEN {"error"}
    ELSE {"ok", "error", "panic"}

\* One part of a reply, as sendMessage writes it to the response builder.
PartText(part, outcome) ==
    CASE part = "text" -> "text"
      [] part \in ToolNames -> IF outcome = "ok" THEN "toolOutput" ELSE "toolError"
      [] OTHER -> "unknownTool"

\* The replies the model service gives: each a sequence of parts, a part being
\* "text" or the name of the function called.
Replies ==
    { <<>>, <<"text">>, <<"text", "get_jira_issues">>, <<"no_such_tool">> }

-----------------------------------------------------------------------------
(* Composer (package ui).                                                  *)

\* m.state = (m.state + 1) % sessionState(len(m.tabs))
TabNextThreeTabsMutant(s) == (s + 1) % (NumTabs - 1)

TabNext(s) == (s + 1) % NumTabs

Handled(M, to) ==
    [M |-> M, cmds |-> {}, quit |-> FALSE, panic |-> FALSE,
     startSession |-> FALSE, to |-> to]

\* The WindowSizeMsg case of ui.Model.Update: store the size and pass it down
\* to the jira, github and chat sub-models.
ResizeAll(M, msg) ==
    LET contentHeight == msg.h - HeaderHeight
    IN  [M EXCEPT !.width = msg.w,
                  !.height = msg.h,
                  !.jira = ListSetSize(@, msg.w, contentHeight),
                  !.github = ListSetSize(@, msg.w, contentHeight),
                  !.chat = ChatSetSize(@, msg.w, contentHeight)]

\* The switch on m.state of ui.Model.Update: the active pane's Update.
UpdateActiveFallthroughMutant(M, msg, e, ext, newClientOK) ==
    CASE M.state = viewShell ->
           LET r == ShellUpdate(M.shell, msg, e, ext)
           IN  [Handled([M EXCEPT !.shell = r.m, !.jira = JiraUpdate(M.jira, msg)],
                        viewShell) EXCEPT !.panic = r.panic]
      [] M.state = viewJira ->
           [Handled([M EXCEPT !.jira = JiraUpdate(M.jira, msg)], viewJira) EXCEPT
               !.quit = ListKeyQuits(msg)]
      [] M.state = viewGitHub ->
           [Handled([M EXCEPT !.github = GitHubUpdate(M.github, msg)], viewGitHub) EXCEPT
               !.quit = ListKeyQuits(msg)]
      [] M.state = viewChat ->
           LET r == ChatUpdate(M.chat, msg, e, newClientOK)
           IN  [Handled([M EXCEPT !.chat = r.m], viewChat) EXCEPT
                   !.cmds = r.cmds, !.startSession = r.startSession]
      [] OTHER -> Handled(M, NoPane)

UpdateActiveRefetchMutant(M, msg, e, ext, newClientOK) ==
    CASE M.state = viewShell ->
           LET r == ShellUpdate(M.shell, msg, e, ext)
           IN  [Handled([M EXCEPT !.shell = r.m], viewShell) EXCEPT !.panic = r.panic]
      [] M.state = viewJira ->
           [Handled([M EXCEPT !.jira = JiraUpdate(M.jira, msg)], viewJira) EXCEPT
               !.quit = ListKeyQuits(msg),
               !.cmds = IF msg.type = "size"
                        THEN {Cmd("jiraFetch", viewJira, 0, <<>>)} ELSE {}]
      [] M.state = viewGitHub ->
           [Handled([M EXCEPT !.github = GitHubUpdate(M.github, msg)], viewGitHub) EXCEPT
               !.quit = ListKeyQuits(msg)]
      [] M.state = viewChat ->
           LET r == ChatUpdate(M.chat, msg, e, newClientOK)
           IN  [Handled([M EXCEPT !.chat = r.m], viewChat) EXCEPT
                   !.cmds = r.cmds, !.startSession = r.startSession]
      [] OTHER -> Handled(M, NoPane)

UpdateActive(M, msg, e, ext, newClientOK) ==
    CASE M.state = viewShell ->
           LET r == ShellUpdate(M.shell, msg, e, ext)
           IN  [Handled([M EXCEPT !.shell = r.m], viewShell) EXCEPT !.panic = r.panic]
      [] M.state = viewJira ->
           [Handled([M EXCEPT !.jira = JiraUpdate(M.jira, msg)], viewJira) EXCEPT
               !.quit = ListKeyQuits(msg)]
      [] M.state = viewGitHub ->
           [Handled([M EXCEPT !.github = GitHubUpdate(M.github, msg)], viewGitHub) EXCEPT
               !.quit = ListKeyQuits(msg)]
      [] M.state = viewChat ->
           LET r == ChatUpdate(M.chat, msg, e, newClientOK)
           IN  [Handled([M EXCEPT !.chat = r.m], viewChat) EXCEPT
                   !.cmds = r.cmds, !.startSession = r.startSession]
      [] OTHER -> Handled(M, NoPane)

\* ui.Model.Update(msg)
ModelUpdate(M, msg, e, ext, newClientOK) ==
    IF msg.type = "ctrl+c"
    THEN [Handled(M, NoPane) EXCEPT !.quit = TRUE]
    ELSE IF msg.type = "tab"
    THEN Handled([M EXCEPT !.state = TabNext(@)], NoPane)
    ELSE UpdateActive(IF msg.type = "size" THEN ResizeAll(M, msg) ELSE M,
                      msg, e, ext, newClientOK)

\* ui.New
ModelNew ==
    [state |-> viewShell, width |-> 0, height |-> 0,
     shell |-> ShellNew, jira |-> JiraNew, github |-> GitHubNew, chat |-> ChatNew]

\* ui.Model.Init: the batch of the panes' Init Commands.  shell.Init and
\* chat.Init return the cursor-blink Command, which changes no modelled state.
ModelInit == { Cmd("jiraFetch", viewJira, 0, <<>>), Cmd("githubFetch", viewGitHub, 0, <<>>) }

-----------------------------------------------------------------------------
(* Commands, as the executor runs them.                                    *)

FetchKinds == {"jiraFetch", "githubFetch"}
IssueList(n) == [i \in 1 .. n |-> i]
IssueLists == { IssueList(n) : n \in 0 .. MaxIssues }
FetchErrors == {"transport", "status", "decode"}

NoMsg == BaseMsg
\* What running a Command did: the Message it returned, the session history it
\* left, whether it panicked, whether it made a request over the network, and
\* whether its work failed.
Result(msg, net) ==
    [msg |-> msg, history |-> session.history, panic |-> FALSE, net |-> net,
     fail |-> msg.type = "err"]

\* jira.fetchIssues: the Messages the closure can return (NoMsg for nil)
JiraFetchResults(e) ==
    IF ~e.jiraCreds
    THEN {Result(NoMsg, FALSE)}
    ELSE { Result(ErrMsg(viewJira, 0, w), TRUE) : w \in FetchErrors }
         \cup { Result(JiraIssuesFetchedMsg(l), TRUE) : l \in IssueLists }

\* github.fetchIssues: GITHUB_TOKEN only adds a header to the request
GitHubFetchResults(e) ==
    { Result(ErrMsg(viewGitHub, 0, w), TRUE) : w \in FetchErrors }
    \cup { Result(GitHubIssuesFetchedMsg(l), TRUE) : l \in IssueLists }

\* The loop over resp.Candidates[0].Content.Parts in sendMessage
ResponseBody(parts, outcome) == [i \in 1 .. Len(parts) |-> PartText(parts[i], outcome)]

CallsIn(parts) == { parts[i] : i \in 1 .. Len(parts) } \ {"text"}

OutcomesFor(parts, e) ==
    IF CallsIn(parts) \cap ToolNames = {} THEN {"none"}
    ELSE UNION { ToolOutcomes(n, e) : n \in CallsIn(parts) \cap ToolNames }

\* chat.Model.sendMessage: the closure run by the executor.
\* ChatSession.SendMessage appends the user content to the session's History
\* before the request and the reply's content after it.
SendResults(c, e) ==
    IF ~e.geminiKey
    THEN {Result(ErrMsg(viewChat, c.id, "GEMINI_API_KEY not set"), FALSE)}
    ELSE IF ~session.exists
    THEN {Result(ErrMsg(viewChat, c.id, "Chat session not initialized"), FALSE)}
    ELSE
    LET sent == Append(session.history, [role |-> "user", id |-> c.id])
        got == Append(sent, [role |-> "model", id |-> c.id])
    IN  { [msg |-> ErrMsg(viewChat, c.id, "transport"), history |-> sent, panic |-> FALSE,
           net |-> TRUE, fail |-> TRUE] }
        \cup
        { IF parts = <<>>
          THEN [msg |-> ErrMsg(viewChat, c.id, "empty response"), history |-> sent,
                panic |-> FALSE, net |-> TRUE, fail |-> TRUE]
          ELSE [msg |-> ResponseMsg(c.id, ResponseBody(parts, "ok")), history |-> got,
                panic |-> FALSE, net |-> TRUE, fail |-> FALSE]
          : parts \in {p \in Replies : "ok" \in OutcomesFor(p, e) \/ "none" \in OutcomesFor(p, e)} }
        \cup
        { [msg |-> ResponseMsg(c.id, ResponseBody(parts, "error")), history |-> got,
           panic |-> FALSE, net |-> TRUE, fail |-> TRUE]
          : parts \in {p \in Replies : "error" \in OutcomesFor(p, e)} }
        \cup
        { [msg |-> NoMsg, history |-> got, panic |-> TRUE, net |-> TRUE, fail |-> TRUE]
          : parts \in {p \in Replies : "panic" \in OutcomesFor(p, e)} }

CommandResults(c, e) ==
    CASE c.kind = "jiraFetch" -> JiraFetchResults(e)
      [] c.kind = "githubFetch" -> GitHubFetchResults(e)
      [] OTHER -> SendResults(c, e)

-----------------------------------------------------------------------------
(* The environment and the runtime.                                        *)

ShellInputs ==
    { <<" ">>, <<"cd">>, <<"cd", " ", "..">>, <<"cd", " ", "tmp">>,
      <<" ", "cd", " ", "/tmp/f">>, <<"ls">> }
ChatTexts == { <<"q">> }
ListKeys == { <<"q">> }
Sizes == { [w |-> 80, h |-> 24], [w |-> 40, h |-> 7] }
\* The process environment: JIRA_URL, JIRA_EMAIL and JIRA_TOKEN all set or
\* not, GITHUB_TOKEN, GEMINI_API_KEY, and $HOME.
Envs ==
    [jiraCreds : BOOLEAN, githubToken : BOOLEAN, geminiKey : BOOLEAN,
     homeSet : {TRUE}, home : {"/home/u", "/nohome"}]
    \cup [jiraCreds : BOOLEAN, githubToken : BOOLEAN, geminiKey : BOOLEAN,
          homeSet : {FALSE}, home : {""}]

\* History of a step: the kind of event, the pane whose Update handled it, and
\* for a Command's Message its type, origin and number of items; the thread
\* the step ran on; whether the step made a request over the network and
\* whether the Command's work failed; the kinds of the Commands the step
\* handed to the executor.
Step(ev, to, msg, thread) ==
    [ev |-> ev, to |-> to, type |-> msg.type, origin |-> msg.origin,
     n |-> Len(msg.items), thread |-> thread, net |-> FALSE, fail |-> FALSE,
     issued |-> {}]

InitWith(active, b, envs) ==
    /\ state = active
    /\ width = ModelNew.width
    /\ height = ModelNew.height
    /\ shell = ModelNew.shell
    /\ jira = ModelNew.jira
    /\ github = ModelNew.github
    /\ chat = ModelNew.chat
    /\ session = [exists |-> FALSE, history |-> <<>>]
    /\ running = ModelInit
    /\ inbox = {}
    /\ env \in envs
    /\ quit = FALSE
    /\ crashed = FALSE
    /\ budget = b
    /\ last = [Step("init", NoPane, NoMsg, "loop") EXCEPT
                  !.issued = {c.kind : c \in ModelInit}]

Alive == ~quit /\ ~crashed

\* The budget after an event of the given kind, when `counts`: the kind's own
\* budget is used first, then the budget shared by the bounded kinds.
Spend(b, kind, counts) ==
    IF ~counts THEN b
    ELSE IF b[kind] > 0 THEN [b EXCEPT ![kind] = @ - 1]
    ELSE [b EXCEPT !.any = @ - 1]

\* One turn of the consumer loop: Update(msg) and the hand-over of the
\* returned Commands to the executor.
Loop(msg, ext, newClientOK, ev) ==
    LET M == [state |-> state, width |-> width, height |-> height, shell |-> shell,
              jira |-> jira, github |-> github, chat |-> chat]
    IN  \E r \in {ModelUpdate(M, msg, env, ext, newClientOK)} :
          \E N \in {IF r.panic THEN M ELSE r.M} :
            /\ state' = N.state
            /\ width' = N.width
            /\ height' = N.height
            /\ shell' = N.shell
            /\ jira' = N.jira
            /\ github' = N.github
            /\ chat' = N.chat
            /\ session' = IF r.startSession /\ ~r.panic
                          THEN [exists |-> TRUE, history |-> <<>>] ELSE session
            /\ running' = IF r.panic THEN running ELSE running \cup r.cmds
            /\ quit' = r.quit
            /\ crashed' = r.panic
            /\ last' = [Step(ev, r.to, msg, "loop") EXCEPT
                            !.issued = IF r.panic THEN {} ELSE {c.kind : c \in r.cmds}]
            /\ UNCHANGED env

KeyCtrlC ==
    /\ Alive
    /\ Loop(KeyMsg("ctrl+c"), CHOOSE x \in ExecOutcomes : TRUE, TRUE, "quit")
    /\ UNCHANGED <<inbox, budget>>

KeyTab ==
    /\ Alive
    /\ Loop(KeyMsg("tab"), CHOOSE x \in ExecOutcomes : TRUE, TRUE, "tab")
    /\ UNCHANGED <<inbox, budget>>

WindowSize ==
    /\ Alive
    /\ budget.resize + budget.view > 0
    /\ \E sz \in Sizes :
         Loop(WindowSizeMsg(sz.w, sz.h), CHOOSE x \in ExecOutcomes : TRUE, TRUE, "size")
    /\ budget' = IF budget.resize > 0 THEN [budget EXCEPT !.resize = @ - 1]
                                       ELSE [budget EXCEPT !.view = @ - 1]
    /\ UNCHANGED inbox

\* The user types (or pastes) a line into the active pane's input.
TypeRunes ==
    /\ Alive
    /\ state = viewShell => shell.tiValue = <<>> /\ budget.enter + budget.any > 0
    /\ state = viewChat => chat.taValue = <<>> /\ budget.submit + budget.any > 0
    /\ \E r \in (CASE state = viewShell -> ShellInputs
                   [] state = viewChat -> ChatTexts
                   [] OTHER -> ListKeys) :
         Loop(KeyRunes(r), CHOOSE x \in ExecOutcomes : TRUE, TRUE, "runes")
    /\ UNCHANGED <<inbox, budget>>

KeyScroll ==
    /\ Alive
    /\ budget.view > 0
    /\ \E k \in {"up", "down"} :
         Loop(KeyMsg(k), CHOOSE x \in ExecOutcomes : TRUE, TRUE, "scroll")
    /\ budget' = [budget EXCEPT !.view = @ - 1]
    /\ UNCHANGED inbox

KeyEnter ==
    /\ Alive
    /\ state = viewShell => budget.enter + budget.any > 0
    /\ state = viewChat /\ chat.taValue # <<>> => budget.submit + budget.any > 0
    /\ \E ext \in (IF state = viewShell THEN ExecOutcomes
                                           ELSE {CHOOSE x \in ExecOutcomes : TRUE}),
          newClientOK \in (IF state = viewChat THEN BOOLEAN ELSE {TRUE}) :
         Loop(KeyMsg("enter"), ext, newClientOK, "enter")
    /\ budget' = Spend(Spend(budget, "enter", state = viewShell),
                       "submit", state = viewChat /\ chat.taValue # <<>>)
    /\ UNCHANGED inbox

\* The executor finishes a Command on its own goroutine.
RunCommand ==
    /\ Alive
    /\ \E c \in running :
         \E r \in CommandResults(c, env) :
            /\ c.kind \in FetchKinds => budget.fetch > 0
            /\ budget' = [budget EXCEPT !.fetch = IF c.kind \in FetchKinds THEN @ - 1 ELSE @]
            /\ running' = running \ {c}
            /\ inbox' = IF r.msg = NoMsg THEN inbox ELSE inbox \cup {r.msg}
            /\ session' = [session EXCEPT !.history = r.history]
            /\ crashed' = r.panic
            /\ last' = [Step("run", NoPane, [NoMsg EXCEPT !.origin = c.origin], "executor")
                          EXCEPT !.net = r.net, !.fail = r.fail]
    /\ UNCHANGED <<state, width, height, shell, jira, github, chat, env, quit>>

\* The loop takes a Command's Message from the channel.
Deliver ==
    /\ Alive
    /\ \E msg \in inbox :
         /\ Loop(msg, CHOOSE x \in ExecOutcomes : TRUE, TRUE, "msg")
         /\ inbox' = inbox \ {msg}
    /\ UNCHANGED budget

NoBudget == [enter |-> 0, submit |-> 0, resize |-> 0, view |-> 0, fetch |-> 0, any |-> 0]
HomeEnvs == {e \in Envs : e.homeSet /\ e.home = "/home/u"}

\* The Composer with its IssueList panes: tabs, resizes, quit and the two
\* fetches issued at Init.
Init == InitWith(ModelNew.state, [NoBudget EXCEPT !.resize = MaxResize, !.fetch = 2],
                 {e \in HomeEnvs : e.geminiKey})
Next ==
    \/ KeyCtrlC
    \/ KeyTab
    \/ WindowSize
    \/ TypeRunes
    \/ KeyEnter
    \/ RunCommand
    \/ Deliver
Spec == Init /\ [][Next]_vars

\* The chat pane's conversation, from the state three tab keys after start-up
\* (the Chat tab is active, both fetches are still running).
InitChat == InitWith(viewChat, [NoBudget EXCEPT !.submit = MaxSubmit], HomeEnvs)
NextChat ==
    \/ TypeRunes
    \/ KeyEnter
    \/ RunCommand
    \/ Deliver
SpecChat == InitChat /\ [][NextChat]_vars

\* The shell pane's interpreter.
InitShell ==
    InitWith(ModelNew.state, [NoBudget EXCEPT !.enter = MaxEnter, !.view = MaxView],
             {e \in Envs : e.jiraCreds /\ e.geminiKey})
NextShell ==
    \/ WindowSize
    \/ TypeRunes
    \/ KeyScroll
    \/ KeyEnter
SpecShell == InitShell /\ [][NextShell]_vars

\* Routing: the user switches tabs while typing in the shell and the chat, and
\* while the fetches and the model-sends complete.
AllSetEnvs == {e \in HomeEnvs : e.jiraCreds /\ e.githubToken /\ e.geminiKey}
InitRoute ==
    InitWith(ModelNew.state,
             [NoBudget EXCEPT !.any = MaxRoute],
             AllSetEnvs)
NextRoute ==
    \/ KeyTab
    \/ TypeRunes
    \/ KeyEnter
    \/ RunCommand
    \/ Deliver
SpecRoute == InitRoute /\ [][NextRoute]_vars

\* The same with the scheduling the runtime gives: a started Command's goroutine
\* eventually finishes, and the loop eventually takes a Message that is waiting
\* on its channel.
SpecLive == InitRoute /\ [][NextRoute]_vars /\ WF_vars(RunCommand) /\ WF_vars(Deliver)
-----------------------------------------------------------------------------
(* Properties.                                                             *)

Range(f) == { f[i] : i \in DOMAIN f }

\* C1: every Message a Command produced is delivered to the pane that issued
\* the Command, whichever pane is active when the loop takes it.
CE_C1_DeliveredToOrigin ==
    last.ev = "msg" => last.to = last.origin

CE_C3_AllPanesResized ==
    last.ev = "size" =>
        /\ shell.vp.w = width /\ shell.vp.h = height - ShellInputRows
        /\ jira.w = width /\ jira.h \in {height, height - HeaderHeight}
        /\ github.w = width /\ github.h \in {height, height - HeaderHeight}
        /\ chat.vpW = width
        /\ chat.vpH = (height - HeaderHeight) - TextareaHeight - 2

SendsInFlight == { c \in running : c.kind = "send" }

\* C4: at most one model-send Command is in flight at any time.
CE_C4_OneSendInFlight ==
    Cardinality(SendsInFlight) <= 1

CarriesToolOutput(t) == "toolOutput" \in Range(t.content)
ChatQuiescent == SendsInFlight = {} /\ { m \in inbox : m.origin = viewChat } = {}

\* C5: a reply with a successful call of a known tool leaves, in order, the
\* user Turn, a tool Turn carrying the result, and a final agent Turn from the
\* resumed call; the exchange never ends on the tool output.
CE_C5_ToolTurnThenAgentTurn ==
    \A i \in DOMAIN chat.messages :
        CarriesToolOutput(chat.messages[i]) =>
            /\ chat.messages[i].role = "tool"
            /\ \E h \in 1 .. (i - 1) : chat.messages[h].role = "user"
            /\ ChatQuiescent =>
                  \E j \in (i + 1) .. Len(chat.messages) : chat.messages[j].role = "model"

\* C6: pane state, the chat session's history included, changes only in steps
\* of the consumer loop, never in a step of a Command's own thread.
CE_C6_OnlyLoopMutates ==
    [][<<shell, jira, github, chat, session>>' # <<shell, jira, github, chat, session>>
          => last'.thread = "loop"]_vars

ShellEnterStep == last'.ev = "enter" /\ state = viewShell
CdArgs(input) == Tail(Fields(input))
IsCd(input) == ~IsBlank(input) /\ Fields(input)[1] = "cd"
Appended(old, new) == SubSeq(new.lines, Len(ViewLines(old)) + 1, Len(new.lines))

\* C7: `cd <path>` with a path that resolves to no directory leaves
\* currentDirectory unchanged and appends, after the prompt line, exactly one
\* error line.
C7_CdMissingPath ==
    [][(/\ ShellEnterStep
        /\ IsCd(shell.tiValue)
        /\ CdArgs(shell.tiValue) # <<>>
        /\ ~IsDir(CdTarget(shell.currentDir, CdArgs(shell.tiValue)[1])))
       =>
       /\ crashed' = FALSE
       /\ shell'.currentDir = shell.currentDir
       /\ LET added == Appended(shell.vp, shell'.vp)
          IN  /\ Len(added) = 2
              /\ added[1] = PromptLine(Base(shell.currentDir), shell.tiValue)
              /\ added[2].k = "err"
              /\ Cardinality({ i \in DOMAIN added : added[i].k = "err" }) = 1]_vars

\* C7 witness: the shell has just handled `cd` to a missing path and to a
\* file: the transcript ends with the prompt and the error line.
W_C7_CdFailed ==
    /\ last.ev = "enter"
    /\ last.to = viewShell
    /\ Len(shell.vp.lines) >= 2
    /\ shell.vp.lines[Len(shell.vp.lines)] = CdErrLine("tmp")
    /\ shell.vp.lines[Len(shell.vp.lines) - 1].k = "prompt"
    /\ \E i \in DOMAIN shell.vp.lines : shell.vp.lines[i] = CdErrLine("/tmp/f")

\* C8: `cd` with no argument, when the home directory exists, makes the home
\* directory the current directory, from any current directory.
C8_CdHome ==
    [][(/\ ShellEnterStep
        /\ Fields(shell.tiValue) = <<"cd">>
        /\ env.homeSet
        /\ IsDir(ArgPath(env.home).comps))
       =>
       /\ crashed' = FALSE
       /\ shell'.currentDir = ArgPath(env.home).comps]_vars

\* C8 witness: `cd ..` moved the shell to /home, then `cd` brought it back to
\* the home directory /home/u.
W_C8_WentHome ==
    /\ last.ev = "enter"
    /\ last.to = viewShell
    /\ env.homeSet
    /\ shell.currentDir = ArgPath(env.home).comps
    /\ \E i, j \in DOMAIN shell.vp.lines :
          /\ i < j
          /\ shell.vp.lines[i] = PromptLine("home", <<"cd", " ", "..">>)
          /\ shell.vp.lines[j] = PromptLine("u", <<"cd">>)

\* C9: Enter on empty or whitespace-only input is a no-op: transcript and
\* currentDirectory unchanged, no line appended.
CE_C9_BlankEnterNoOp ==
    [][(ShellEnterStep /\ IsBlank(shell.tiValue))
       =>
       /\ shell'.vp.lines = shell.vp.lines
       /\ shell'.currentDir = shell.currentDir]_vars

FetchedNone(pane, type) ==
    /\ last.ev = "msg"
    /\ last.type = type
    /\ last.to = pane
    /\ last.n = 0

\* C10: when a successful fetch with zero items has been applied to an
\* IssueList pane (Jira or GitHub), its list holds exactly one "no items"
\* entry and is not empty.
CE_C10_NoItemsEntry ==
    /\ FetchedNone(viewJira, "jiraIssues") => jira.items = <<NoIssuesItem>>
    /\ FetchedNone(viewGitHub, "githubIssues") => github.items = <<NoIssuesItem>>

NoCredentials(pane) == IF pane = viewJira THEN ~env.jiraCreds ELSE ~env.githubToken
ListOf(pane) == IF pane = viewJira THEN jira ELSE github

\* C11: for every IssueList pane (Jira and GitHub), when no credentials of its
\* tracker are configured, the list holds the single "setup required"
\* placeholder after Init, and running the pane's fetch Command attempts no
\* network call.
CE_C11_SetupPlaceholder ==
    \A pane \in {viewJira, viewGitHub} :
        NoCredentials(pane) =>
            /\ last.ev = "init" => ListOf(pane).items = <<SetupItem>>
            /\ (last.ev = "run" /\ last.origin = pane) => ~last.net

CarriesError(m) == m.type = "err" \/ "toolError" \in Range(m.body)

\* C12: every failure inside a Command's work (transport failure, non-success
\* status, malformed or unexpectedly shaped payload, failing tool) becomes an
\* error-carrying Message of that Command; no Command outcome terminates the
\* executor or aborts the Composer loop.
CE_C12_FailuresBecomeMessages ==
    /\ last.thread = "executor" => ~crashed
    /\ (last.ev = "run" /\ last.fail) =>
          \E m \in inbox : m.origin = last.origin /\ CarriesError(m)

\* C13: executing a non-cd line in the Shell pane does not block the event
\* loop: the Enter step hands the process to the executor as a Command of the
\* shell pane and returns before the process's output exists, so that other
\* events can be applied until the result arrives.
CE_C13_ExecRunsAsCommand ==
    [][(ShellEnterStep /\ ~IsBlank(shell.tiValue) /\ ~IsCd(shell.tiValue))
       =>
       /\ \E c \in running' \ running : c.origin = viewShell
       /\ Appended(shell.vp, shell'.vp) =
             <<PromptLine(Base(shell.currentDir), shell.tiValue)>>]_vars

\* C14: the quit event (Ctrl+C) makes the Composer's Update return the
\* terminal sentinel without delivering the event to any pane, and no other
\* event makes it return the sentinel: quit is the single exit path.
CE_C14_QuitIsSingleExit ==
    /\ last.ev = "quit" => (quit /\ last.to = NoPane)
    /\ quit => last.ev = "quit"

RoutedEvents == {"runes", "enter", "scroll", "msg"}
PaneState(p) ==
    CASE p = viewShell -> shell
      [] p = viewJira -> jira
      [] p = viewGitHub -> github
      [] OTHER -> chat

\* C15: every event other than tab-advance, quit and resize (a key, or a
\* Command's Message) is routed solely to the active pane: the three inactive
\* panes' states and the active-pane index are unchanged by it, and only a
\* Command returned by the active pane is forwarded to the executor.
C15_RoutedToActiveOnly ==
    [][last'.ev \in RoutedEvents =>
          /\ state' = state
          /\ last'.to = state
          /\ \A p \in Panes \ {state} : PaneState(p)' = PaneState(p)
          /\ \A c \in running' \ running : c.origin = state]_vars

\* C15 witness: after tab keys, a Command's Message has just been routed to
\* the active pane, changing it (the chat pane holds the user Turn and the
\* Turn the Message added) while the shell pane is as it was constructed.
W_C15_RoutedMessage ==
    /\ last.ev = "msg"
    /\ last.to = viewChat
    /\ state = viewChat
    /\ Len(chat.messages) = 2
    /\ shell = ShellNew

\* C16: a chat reply always corresponds to the latest submitted user Turn:
\* whenever an agent Turn is in the Conversation, the most recent user Turn
\* before it is the one whose send produced that reply, in whatever order the
\* sends in flight complete.
CE_C16_ReplyMatchesLatestUser ==
    \A i \in DOMAIN chat.messages :
        chat.messages[i].role = "model" =>
            \E h \in 1 .. (i - 1) :
                /\ chat.messages[h].role = "user"
                /\ \A k \in (h + 1) .. (i - 1) : chat.messages[k].role # "user"
                /\ chat.messages[h].id = chat.messages[i].id

ChatEnterStep == last'.ev = "enter" /\ state = viewChat
NewCommands == running' \ running

\* The submit was accepted: the user Turn carrying the input is appended and
\* exactly one model-send Command, carrying that input, is issued.
SubmitSent ==
    /\ chat'.messages = Append(chat.messages,
                               Turn("user", chat.taValue, Len(chat.messages) + 1))
    /\ Cardinality(NewCommands) = 1
    /\ \A c \in NewCommands : c.kind = "send" /\ c.text = chat.taValue
    /\ running \subseteq running'

\* The submit was refused for want of a model client: one system Turn carrying
\* the error is appended, no user Turn, and no Command is issued.
SubmitRefused ==
    /\ Len(chat'.messages) = Len(chat.messages) + 1
    /\ SubSeq(chat'.messages, 1, Len(chat.messages)) = chat.messages
    /\ chat'.messages[Len(chat'.messages)].role = "system"
    /\ chat'.messages[Len(chat'.messages)].content[1] = "Error"
    /\ running' = running

\* C17 as claimed: in Idle, every submit with non-empty input appends a user
\* Turn carrying that input and issues exactly one model-send Command; a
\* submit with empty input appends no Turn and issues no Command.
CE_C17_SubmitAlwaysSends ==
    [][(ChatEnterStep /\ ChatQuiescent) =>
          IF chat.taValue # <<>>
          THEN SubmitSent
          ELSE chat'.messages = chat.messages /\ running' = running]_vars

\* C17 as amended: in Idle, a submit with non-empty input appends the user
\* Turn and issues exactly one model-send Command when the model client exists
\* or can be created (API key set and the client's creation succeeding); when
\* it cannot, the submit appends one system Turn carrying the error and issues
\* no Command; a submit with empty input appends no Turn and issues no Command.
C17_SubmitInIdle ==
    [][(ChatEnterStep /\ ChatQuiescent) =>
          IF chat.taValue # <<>>
          THEN /\ SubmitSent \/ SubmitRefused
               /\ chat.client => SubmitSent
               /\ (~chat.client /\ ~env.geminiKey) => SubmitRefused
               /\ SubmitRefused => (~chat.client /\ ~chat'.client)
               /\ SubmitSent => chat'.client
          ELSE chat'.messages = chat.messages /\ running' = running]_vars

\* C17 witness: after a finished exchange (user Turn, agent Turn) the pane was
\* in Idle with its client created, and a submit has just appended the next
\* user Turn and issued its send, the only one in flight.
W_C17_SubmittedInIdle ==
    /\ last.ev = "enter"
    /\ last.to = viewChat
    /\ Len(chat.messages) = 3
    /\ chat.messages[2].role = "model"
    /\ chat.messages[3] = Turn("user", <<"q">>, 3)
    /\ SendsInFlight = {Cmd("send", viewChat, 3, <<"q">>)}
    /\ { m \in inbox : m.origin = viewChat } = {}

\* A failure reaches the chat pane: a failure Message is applied to it, or a
\* non-empty submit finds no API credential to create the client with.
ChatFailureStep ==
    \/ last'.ev = "msg" /\ last'.type = "err" /\ state = viewChat
    \/ ChatEnterStep /\ chat.taValue # <<>> /\ ensureClient(chat, env, TRUE) # ""

UserTurnAt(i) == i \in DOMAIN chat.messages /\ chat.messages[i].role = "user"
AnsweredAfter(i) ==
    /\ \E j \in (i + 1) .. Len(chat.messages) : chat.messages[j].role \in {"model", "system"}
    /\ ChatQuiescent

\* C19: under fair scheduling of the Commands and of the consumer loop, and
\* with tab keys and other events interleaved (short of quit), every user Turn
\* submitted in the chat pane is eventually followed in the Conversation by an
\* agent Turn or a system error Turn, the pane then being back in Idle.
CE_C19_EveryUserTurnAnswered ==
    \A i \in 1 .. (2 * MaxRoute) :
        [](UserTurnAt(i) => <>(AnsweredAfter(i) \/ quit))

IsPrefix(s, t) == Len(s) <= Len(t) /\ SubSeq(t, 1, Len(s)) = s

\* C20: the chat Conversation is append-only: across every event or Message
\* applied to the chat pane (and every other step), the previous Conversation
\* is a prefix of the new one.
C20_ConversationAppendOnly ==
    [][IsPrefix(chat.messages, chat'.messages)]_vars

\* C20 witness: a Message has just extended a Conversation that already held
\* an answered exchange and a second user Turn: four Turns, the first three in
\* the order they were appended.
W_C20_ConversationGrew ==
    /\ last.ev = "msg"
    /\ last.to = viewChat
    /\ Len(chat.messages) = 4
    /\ chat.messages[1].role = "user"
    /\ chat.messages[2].role \in {"model", "system"}
    /\ chat.messages[3].role = "user"
    /\ chat.messages[4].role \in {"model", "system"}

NonBlank(lines) == SelectSeq(lines, LAMBDA l : l # BlankLine)

\* C21: after every executed (non-blank) line the shell's transcript equals
\* the previous transcript followed by the prompt line "<basename of the
\* current directory> $ <input>" and then the command's output or error text:
\* no earlier line is lost, whatever the viewport's height and however many
\* lines were appended before.  (Stated on the lines that are not empty, so
\* that empty lines the view pads with do not count.)
CE_C21_TranscriptKept ==
    [][(ShellEnterStep /\ ~IsBlank(shell.tiValue) /\ ~crashed') =>
          LET old == NonBlank(shell.vp.lines)
              new == NonBlank(shell'.vp.lines)
          IN  /\ Len(new) > Len(old)
              /\ SubSeq(new, 1, Len(old)) = old
              /\ new[Len(old) + 1] \in
                    { PromptLine(Base(shell.currentDir), shell.tiValue),
                      PromptLine(Base(shell'.currentDir), shell.tiValue) }]_vars

FetchesOf(pane) == { c \in running : c.kind \in FetchKinds /\ c.origin = pane }

\* C22: for each IssueList pane at most one fetch Command is in flight at any
\* time: initialization issues each pane's fetch exactly once, in the batch of
\* the panes' Init Commands, and no later step issues a fetch again.
C22_OneFetchPerPane ==
    /\ \A pane \in {viewJira, viewGitHub} : Cardinality(FetchesOf(pane)) <= 1
    /\ last.ev = "init" =>
          /\ last.issued = FetchKinds
          /\ \A pane \in {viewJira, viewGitHub} : Cardinality(FetchesOf(pane)) = 1
    /\ last.ev # "init" => last.issued \cap FetchKinds = {}

\* C22 witness: both fetches have completed and their Messages were consumed;
\* a resize has then been applied with the Jira pane active, and no fetch is
\* in flight again.
W_C22_NoRefetch ==
    /\ last.ev = "size"
    /\ state = viewJira
    /\ FetchesOf(viewJira) = {}
    /\ FetchesOf(viewGitHub) = {}
    /\ inbox = {}

\* C23: handling Enter in the Shell pane never crashes: for every input line
\* and every state of the file system and of $HOME, `cd` with no argument and
\* a home directory that does not exist included, the handler returns a result
\* string and a (possibly unchanged) directory.
CE_C23_ShellEnterNeverCrashes ==
    (last.ev = "enter" /\ last.to = viewShell) => ~crashed

Composer ==
    [state |-> state, width |-> width, height |-> height, shell |-> shell,
     jira |-> jira, github |-> github, chat |-> chat]
StoredSizes(M) ==
    [jira |-> <<M.jira.w, M.jira.h>>,
     github |-> <<M.github.w, M.github.h>>,
     chat |-> <<M.chat.vpW, M.chat.vpH, M.chat.taWidth>>]
\* The same resize event applied to the same Composer with another pane active.
ResizedWith(active, w, h) ==
    ModelUpdate([Composer EXCEPT !.state = active], WindowSizeMsg(w, h), env,
                CHOOSE x \in ExecOutcomes : TRUE, TRUE).M

\* C24: the size a pane stores after a resize event does not depend on which
\* pane is active: the Jira, GitHub and Chat panes end with the same stored
\* width and height in this run as in the run that differs only in the
\* active-pane index and receives the same resize event.
CE_C24_SizeIndependentOfActive ==
    [][last'.ev = "size" =>
          \A other \in Panes :
              StoredSizes(Composer') = StoredSizes(ResizedWith(other, width', height'))]_vars

====
